---- MODULE Spec2Model ----
(***************************************************************************)
(* Model of the Text2SPARQL search service: QueryRunner                    *)
(* (sparql_utils/knowledgeGraphSearch.py), the process-wide engine         *)
(* reference (sparql_utils/initializer.py) and the two request handlers    *)
(* (routers/get_sparql.py, routers/set_mode.py).                           *)
(*                                                                         *)
(* A Python str is modelled as a sequence of one-character strings, so     *)
(* that slicing, splitting and substring tests are computed, not assumed.  *)
(***************************************************************************)
EXTENDS Integers, Sequences, FiniteSets, TLC

(***************************************************************************)
(* Python list / str primitives                                            *)
(***************************************************************************)

\* s[n:]
Drop(s, n) == IF n >= Len(s) THEN << >> ELSE SubSeq(s, n + 1, Len(s))

\* s[:n]
Take(s, n) == IF n >= Len(s) THEN s ELSE SubSeq(s, 1, n)

\* x in list
InList(x, s) == \E i \in 1..Len(s) : s[i] = x

\* the elements of a list, as a set
Range(s) == { s[i] : i \in 1..Len(s) }

\* sub in s, for str operands
IsSubstr(sub, s) ==
    \E i \in 0..(Len(s) - Len(sub)) : SubSeq(s, i + 1, i + Len(sub)) = sub

\* position of the first occurrence of character ch in s, 0 when absent
RECURSIVE FirstIndex(_, _, _)
FirstIndex(s, ch, i) ==
    IF i > Len(s) THEN 0
    ELSE IF s[i] = ch THEN i
    ELSE FirstIndex(s, ch, i + 1)

\* s.split(ch): always at least one piece, empty pieces kept
RECURSIVE Split(_, _)
Split(s, ch) ==
    LET k == FirstIndex(s, ch, 1)
    IN  IF k = 0 THEN << s >>
        ELSE << Take(s, k - 1) >> \o Split(Drop(s, k), ch)

\* s.replace(ch, '')
RemoveChar(s, ch) == SelectSeq(s, LAMBDA c : c # ch)

\* keys of a dict filled by iterating a list: first occurrences, in order
RECURSIVE DictKeys(_)
DictKeys(s) ==
    IF s = << >> THEN << >>
    ELSE LET init == DictKeys(Take(s, Len(s) - 1))
             last == s[Len(s)]
         IN  IF InList(last, init) THEN init ELSE Append(init, last)

(***************************************************************************)
(* QueryRunner.__tokenizer                                                 *)
(***************************************************************************)
MinTokenLen(token) == Len(token) > 2

tokenizer(text) == SelectSeq(Split(text, " "), MinTokenLen)

(***************************************************************************)
(* QueryRunner.__sortingTextPurResults                                     *)
(* A score is the pair <<overlap count, len(uri)>> standing for the        *)
(* quotient; quotients are compared by cross multiplication.               *)
(***************************************************************************)
RECURSIVE CountTokens(_, _)
CountTokens(tokens, uri) ==
    IF tokens = << >> THEN 0
    ELSE (IF IsSubstr(tokens[1], uri) THEN 1 ELSE 0)
         + CountTokens(Drop(tokens, 1), uri)

purityScore(tokens, uri) == << CountTokens(tokens, uri), Len(uri) >>

ScoreGreaterBug(a, b) == a[1] * b[2] >= b[1] * a[2]

\* a > b for quotients
ScoreGreater(a, b) == a[1] * b[2] > b[1] * a[2]

\* sorted(items, key=score, reverse=True): stable, descending
\* score is a function from the items to their quotients
RECURSIVE SortDesc(_, _)
SortDesc(items, score) ==
    IF items = << >> THEN << >>
    ELSE LET init == SortDesc(Take(items, Len(items) - 1), score)
             x    == items[Len(items)]
             \* x goes after every element whose score is >= its own
             k    == Cardinality({ i \in 1..Len(init) :
                                   ~ScoreGreater(score[x], score[init[i]]) })
         IN  Take(init, k) \o << x >> \o Drop(init, k)

sortingTextPurResults(query, relation_results, text_results) ==
    LET tokens == tokenizer(query)
        kept   == SelectSeq(text_results,
                            LAMBDA t : ~InList(t, relation_results))
    IN  SortDesc(DictKeys(kept),
                 [u \in Range(kept) |-> purityScore(tokens, u)])

(***************************************************************************)
(* QueryRunner.__mergeResults                                              *)
(***************************************************************************)
mergeListsNoInterleave(relation_results, sorted_text_pur_results) ==
    IF Len(relation_results) = 0 /\ Len(sorted_text_pur_results) = 0
    THEN << >>
    ELSE IF Len(relation_results) = 0 THEN sorted_text_pur_results
    ELSE IF Len(sorted_text_pur_results) = 0 THEN relation_results
    ELSE relation_results \o sorted_text_pur_results

\* the if/elif chain applied to the relation list and the sorted purity list
mergeLists(relation_results, sorted_text_pur_results) ==
    IF Len(relation_results) = 0 /\ Len(sorted_text_pur_results) = 0
    THEN << >>
    ELSE IF Len(relation_results) = 0 THEN sorted_text_pur_results
    ELSE IF Len(sorted_text_pur_results) = 0 THEN relation_results
    ELSE IF Len(relation_results) > 2 /\ Len(sorted_text_pur_results) > 2
    THEN Take(relation_results, 2) \o Take(sorted_text_pur_results, 2)
         \o Drop(relation_results, 2) \o Drop(sorted_text_pur_results, 2)
    ELSE IF Len(relation_results) > 2
    THEN Take(relation_results, 2) \o sorted_text_pur_results
         \o Drop(relation_results, 2)
    ELSE relation_results \o sorted_text_pur_results

mergeResults(query_text, relation_results, text_results) ==
    mergeLists(relation_results,
               sortingTextPurResults(query_text, relation_results,
                                     text_results))

(***************************************************************************)
(* QueryRunner.__removeBadLinks                                            *)
(***************************************************************************)
\* the literal offset of link[31:]
LinkOffset == 31

\* the zero-width non-joiner, one character
ZWNJ == "\\u200c"

cleanToken(token) ==
    RemoveChar(RemoveChar(RemoveChar(token, "("), ")"), ZWNJ)

linkTokens(link) == Split(Drop(link, LinkOffset), "_")

goodLink(link, query_tokens) ==
    \E i \in 1..Len(linkTokens(link)) :
        InList(cleanToken(linkTokens(link)[i]), query_tokens)

removeBadLinks(links, query) ==
    LET query_tokens == tokenizer(query)
    IN  SelectSeq(links, LAMBDA link : goodLink(link, query_tokens))

(***************************************************************************)
(* The endpoint's data.  The service names namespaces only by prefix; the  *)
(* IRIs below are the ones the endpoint binds to those prefixes.           *)
(***************************************************************************)
\* fkgr: http://fkg.iust.ac.ir/resource/
NsFkgr ==
    << "h", "t", "t", "p", ":", "/", "/", "f", "k", "g", ".", "i", "u", "s",
       "t", ".", "a", "c", ".", "i", "r", "/", "r", "e", "s", "o", "u", "r",
       "c", "e", "/" >>

\* fkgc: http://fkg.iust.ac.ir/category/
NsFkgc ==
    << "h", "t", "t", "p", ":", "/", "/", "f", "k", "g", ".", "i", "u", "s",
       "t", ".", "a", "c", ".", "i", "r", "/", "c", "a", "t", "e", "g", "o",
       "r", "y", "/" >>

\* the classes: http://fkg.iust.ac.ir/ontology/
NsOntology ==
    << "h", "t", "t", "p", ":", "/", "/", "f", "k", "g", ".", "i", "u", "s",
       "t", ".", "a", "c", ".", "i", "r", "/", "o", "n", "t", "o", "l", "o",
       "g", "y", "/" >>

\* dbr: http://dbpedia.org/resource/, a namespace a mode update can select
NsDbr ==
    << "h", "t", "t", "p", ":", "/", "/", "d", "b", "p", "e", "d", "i", "a",
       ".", "o", "r", "g", "/", "r", "e", "s", "o", "u", "r", "c", "e", "/" >>

\* dbc: http://dbpedia.org/category/
NsDbc ==
    << "h", "t", "t", "p", ":", "/", "/", "d", "b", "p", "e", "d", "i", "a",
       ".", "o", "r", "g", "/", "c", "a", "t", "e", "g", "o", "r", "y", "/" >>

Namespace(prefix) ==
    CASE prefix = "fkgr" -> NsFkgr
      [] prefix = "fkgc" -> NsFkgc
      [] prefix = "dbr"  -> NsDbr
      [] prefix = "dbc"  -> NsDbc
      [] OTHER           -> << >>

\* the prefixes of the engine built at import
DefaultPrefixes ==
    [entity |-> "fkgr", category |-> "fkgc", type |-> "rdf:instanceOf"]

\* the prefixes a /mode request carries
RequestedPrefixes ==
    [entity |-> "dbr", category |-> "dbc", type |-> "rdf:type"]

Modes == { RequestedPrefixes }

\* local names
Ali     == << "A", "l", "i" >>
Reza    == << "R", "e", "z", "a" >>
AliReza == << "A", "l", "i", "_", "(", "R", "e", "z", "a", ")" >>
Omid    == << "O", "m", "i", "d" >>

\* query texts of /query requests: "Ali", "Ali Reza", "Reza Ali"
TextAli     == << "A", "l", "i" >>
TextAliReza == << "A", "l", "i", " ", "R", "e", "z", "a" >>
TextRezaAli == << "R", "e", "z", "a", " ", "A", "l", "i" >>

Texts == { TextAli, TextAliReza }

Uris(ns, locals) == [i \in 1..Len(locals) |-> ns \o locals[i]]

Person == NsOntology \o << "P", "e", "r", "s", "o", "n" >>
Thing  == NsOntology \o << "T", "h", "i", "n", "g" >>

\* what the index-build query returns: the classes that carry a label
IndexBindings ==
    << [instance |-> Person, label |-> << "P", "e", "r", "s", "o", "n" >>] >>

(***************************************************************************)
(* Query strings.  A query string is kept as the record of what it was     *)
(* built from; two records differ exactly when the strings differ.         *)
(***************************************************************************)
RelationLimit == 10
TextLimit     == 20

StrategyKinds ==
    { "relationQuery", "semiRelationQuery", "likeQuery", "semiLikeQuery" }

Query(kind, prefix, arg, limit) ==
    [kind |-> kind, prefix |-> prefix, arg |-> arg, limit |-> limit]

relationQuery(text, limit, prefixes) ==
    Query("relationQuery", prefixes.entity, tokenizer(text), limit)

semiRelationQuery(text, limit, prefixes) ==
    Query("semiRelationQuery", prefixes.entity, tokenizer(text), limit)

likeQuery(text, limit, prefixes) ==
    Query("likeQuery", prefixes.entity, tokenizer(text), limit)

semiLikeQuery(text, limit, prefixes) ==
    Query("semiLikeQuery", prefixes.entity, tokenizer(text), limit)

instance2labelsQuery == Query("index", "", << >>, 0)

categoryQuery(entity_uri, prefixes) ==
    Query("category", prefixes.category, entity_uri, 0)

ontologyQuery(entity_uri, prefixes) ==
    Query("ontology", prefixes.type, entity_uri, 0)

incomeQuery(entity_uri, prefixes) ==
    Query("income", prefixes.entity, entity_uri, 0)

outcomeQuery(entity_uri, prefixes) ==
    Query("outcome", prefixes.entity, entity_uri, 0)

\* ontology patterns plus one pattern per listed category
similarQuery(ontology, categories) ==
    Query("similar", "", << ontology, categories >>, 0)

(***************************************************************************)
(* The backing graph: a fixed function from query strings to rows.  A      *)
(* graph is described by which strategy queries match anything, by how    *)
(* many entities a strategy query matches at most, and by what the         *)
(* enrichment queries return; may_fail says whether a call of the endpoint *)
(* can fail (network or protocol error).                                   *)
(***************************************************************************)
StrategyLocals(kind, tokens) ==
    LET first == IF tokens = << >> THEN Omid ELSE tokens[1]
    IN  CASE kind = "relationQuery"     -> << first, AliReza >>
          [] kind = "semiRelationQuery" -> << AliReza >>
          [] kind = "likeQuery"         -> << AliReza, Omid, first >>
          [] kind = "semiLikeQuery"     -> << Omid, first >>

Categories4 ==
    Uris(NsFkgc, << << "P", "n" >>, << "x" >>, << "P" >>, << "y", "z" >> >>)

Categories1 == Uris(NsFkgc, << << "P", "n" >> >>)

\* rows of the similarity query, by number of category patterns
SimilarCases ==
    { [n \in 0..3 |->
         CASE n = 3 -> s3 [] n = 2 -> s2 [] n = 1 -> s1
           [] OTHER -> Uris(NsFkgr, << Ali, AliReza, Reza, Omid >>)] :
      s3 \in { Uris(NsFkgr, << Omid, Omid >>), Uris(NsFkgr, << Omid, Reza >>) },
      s2 \in { Uris(NsFkgr, << Ali, Omid >>), Uris(NsFkgr, << Reza, Omid >>) },
      s1 \in { << >>, Uris(NsFkgr, << Reza, Omid >>) } }

SimilarDefault ==
    [n \in 0..3 |-> Uris(NsFkgr, << Ali, Omid >>)]

EnrichmentCases ==
    { << cs, os, SimilarDefault >> :
        cs \in { << >>, Categories1 },
        os \in { << >>, << Person >>, << Thing >> } }
    \cup { << Categories4, << Person >>, sm >> : sm \in SimilarCases }

AllHit == [k \in StrategyKinds |-> TRUE]

\* graphs that differ in what the strategy queries match, and graphs that
\* differ in what the enrichment queries return
Graphs ==
    { [hit |-> h, may_fail |-> TRUE, matches |-> 3, categories |-> Categories1,
       ontology |-> << Person >>, similar |-> SimilarDefault] :
      h \in [StrategyKinds -> BOOLEAN] }
    \cup
    { [hit |-> AllHit, may_fail |-> TRUE, matches |-> 3, categories |-> ec[1],
       ontology |-> ec[2], similar |-> ec[3]] : ec \in EnrichmentCases }

\* whether the endpoint can parse the query string.  The exact tiers write
\* "FILTER (" + one regex per token + " && regex(str(?o), ...))": without a
\* token the filter starts with "&&".  The semi tiers write
\* "FILTER((" + regexes of tokens[:-1] + " || " + regexes of tokens[1:]:
\* with fewer than two tokens an operand of "||" is missing.
WellFormed(q) ==
    CASE q.kind \in { "relationQuery", "likeQuery" } -> Len(q.arg) > 0
      [] q.kind \in { "semiRelationQuery", "semiLikeQuery" } -> Len(q.arg) > 1
      [] OTHER -> TRUE

\* a call of the endpoint with this query string can fail
CanFail(g, q) == g.may_fail \/ ~WellFormed(q)

\* the rows the endpoint returns for a query string, first variable only
Rows(g, q) ==
    CASE q.kind \in StrategyKinds ->
           IF g.hit[q.kind]
           THEN Take(Take(Uris(Namespace(q.prefix),
                               StrategyLocals(q.kind, q.arg)), g.matches),
                     q.limit)
           ELSE << >>
      [] q.kind = "category" -> g.categories
      [] q.kind = "ontology" -> g.ontology
      [] q.kind = "income"   -> Uris(NsFkgr, << Omid >>)
      [] q.kind = "outcome"  -> << >>
      [] q.kind = "similar"  -> g.similar[Len(q.arg[2])]
      [] OTHER               -> << >>

(***************************************************************************)
(* State                                                                   *)
(***************************************************************************)
VARIABLES
    query_handler,  \* initializer.query_handler: the active engine instance
    engine,         \* the QueryRunner objects, by identity
    graph,          \* the backing graph behind the endpoint
    main,           \* per /query request: the thread executing runQuery
    thread,         \* per /query request: its two strategy threads
    upd,            \* the /mode request and its update_mode call
    hashseed,       \* the process's str hash seed (PYTHONHASHSEED)
    probe           \* a direct call of one method: its arguments and result

vars == << query_handler, engine, graph, main, thread, upd, hashseed, probe >>

Calls      == { "a", "b" }
Strategies == { "relation", "text" }
EngineIds  == { 0, 1 }

\* an attribute that is not assigned yet / an assigned attribute
None    == << >>
Some(v) == << v >>

\* queryString of a fresh SPARQLWrapper
DefaultQuery == Query("default", "", << >>, 0)

\* QueryRunner.__instance2labels: the dict filled from the bindings
instance2labels(bindings) ==
    [inst \in { bindings[i].instance : i \in 1..Len(bindings) } |->
        LET last == CHOOSE i \in 1..Len(bindings) :
                        /\ bindings[i].instance = inst
                        /\ \A j \in (i + 1)..Len(bindings) :
                               bindings[j].instance # inst
        IN  bindings[last].label]

\* the seeds the model distinguishes
HashSeeds == { 0, 1 }

RECURSIVE Reverse(_)
Reverse(s) == IF s = << >> THEN << >>
              ELSE Append(Reverse(Drop(s, 1)), s[1])

\* list(set(rows)): the distinct rows, in an order the hash seed decides
ListOfSet(rows, seed) ==
    IF seed = 0 THEN DictKeys(rows) ELSE Reverse(DictKeys(rows))

NoObject ==
    [sparql_server |-> None, instance2labels |-> None, prefixes |-> None,
     relation_results |-> None, text_results |-> None]

\* the object QueryRunner.__init__ returns
QueryRunner(prefixes) ==
    [sparql_server |-> Some(instance2labelsQuery),
     instance2labels |-> Some(instance2labels(IndexBindings)),
     prefixes |-> Some(prefixes),
     relation_results |-> None, text_results |-> None]

NoInfo ==
    [category_links |-> << >>, ontology_links |-> << >>,
     income_entities_links |-> << >>, outcome_entities_links |-> << >>,
     sorted_category |-> << >>, num |-> 0, sim_ents |-> << >>,
     issued |-> << >>]

MainInit(pc, text) ==
    [pc |-> pc, query_text |-> text, self |-> 0,
     merge_results |-> << >>, removed_bad_links_result |-> << >>,
     entity |-> 0, info |-> NoInfo, answer |-> << >>, result |-> None,
     succeeded |-> FALSE]

ThreadInit ==
    [pc |-> "idle", answer |-> << >>, mode |-> "", raised |-> FALSE,
     succeeded |-> FALSE, exact |-> None, semi |-> FALSE]

NoProbe == [method |-> "", args |-> << >>, result |-> None]

\* the process after import: the engine built by initializer.py is active
InitProcess ==
    /\ query_handler = 0
    /\ engine = [e \in EngineIds |->
                    IF e = 0 THEN QueryRunner(DefaultPrefixes) ELSE NoObject]
    /\ thread = [c \in Calls |-> [s \in Strategies |-> ThreadInit]]

\* one /query request and one /mode request
Init ==
    /\ InitProcess
    /\ graph \in Graphs
    /\ hashseed \in (IF Len(graph.categories) > 3 THEN HashSeeds ELSE { 0 })
    /\ \E m \in Modes : upd = [pc |-> "pending", mode |-> m, new |-> 1]
    /\ probe = NoProbe
    /\ \E t \in Texts :
          main = [c \in Calls |->
                    IF c = "a" THEN MainInit("pending", t)
                    ELSE MainInit("absent", << >>)]

(***************************************************************************)
(* QueryRunner.__runSPARQL, as the two steps a thread takes on the shared  *)
(* client: setQuery stores the string in the client, query() sends the     *)
(* string the client holds at that moment.                                 *)
(***************************************************************************)
\* the string query() sends, given the client and the string this caller set
SentQuery(client, q) == client[1]

setQuery(e, q) == [engine EXCEPT ![e].sparql_server = Some(q)]

(***************************************************************************)
(* relationSearch / textSearch, run by Thread(target=...)                  *)
(***************************************************************************)
Self(c)     == main[c].self
Prefixes(c) == engine[Self(c)].prefixes[1]

ExactQueryOf(text, prefixes, s) ==
    IF s = "relation" THEN relationQuery(text, RelationLimit, prefixes)
    ELSE likeQuery(text, TextLimit, prefixes)

SemiQueryOf(text, prefixes, s) ==
    IF s = "relation" THEN semiRelationQuery(text, RelationLimit, prefixes)
    ELSE semiLikeQuery(text, TextLimit, prefixes)

ExactQuery(c, s) == ExactQueryOf(main[c].query_text, Prefixes(c), s)
SemiQuery(c, s)  == SemiQueryOf(main[c].query_text, Prefixes(c), s)

ExactMode(s) == IF s = "relation" THEN "relationQuery" ELSE "likeQuery"
SemiMode(s)  == IF s = "relation" THEN "semiRelationQuery" ELSE "semiLikeQuery"

NeedsSemiBug(answer) == Len(answer) # 0

\* if len(answer) == 0
NeedsSemi(answer) == Len(answer) = 0

StoredResultBug(t) == [mode |-> t.mode, answer |-> t.answer]

\* the dict the strategy stores: the try body's, or the except clause's
StoredResult(t) ==
    IF t.raised THEN [mode |-> "error", answer |-> << >>]
    ELSE [mode |-> t.mode, answer |-> t.answer]

SearchSetExact(c, s) ==
    /\ thread[c][s].pc = "exact_set"
    /\ engine' = setQuery(Self(c), ExactQuery(c, s))
    /\ thread' = [thread EXCEPT ![c][s].pc = "exact_run"]
    /\ UNCHANGED << query_handler, graph, main, upd, hashseed, probe >>

SearchRunExact(c, s) ==
    /\ thread[c][s].pc = "exact_run"
    /\ LET sent   == SentQuery(engine[Self(c)].sparql_server,
                               ExactQuery(c, s))
           answer == Rows(graph, sent)
       IN  \/ \* the endpoint call raises
              /\ CanFail(graph, sent)
              /\ thread' = [thread EXCEPT ![c][s].pc = "record",
                                          ![c][s].raised = TRUE]
           \/ /\ WellFormed(sent)
              /\ thread' = [thread EXCEPT
                     ![c][s].answer = answer,
                     ![c][s].exact = Some(answer),
                     ![c][s].mode = ExactMode(s),
                     ![c][s].succeeded = TRUE,
                     ![c][s].pc = IF NeedsSemi(answer) THEN "semi_set"
                                  ELSE "record"]
    /\ UNCHANGED << query_handler, engine, graph, main, upd, hashseed, probe >>

SearchSetSemi(c, s) ==
    /\ thread[c][s].pc = "semi_set"
    /\ engine' = setQuery(Self(c), SemiQuery(c, s))
    /\ thread' = [thread EXCEPT ![c][s].pc = "semi_run",
                                ![c][s].semi = TRUE]
    /\ UNCHANGED << query_handler, graph, main, upd, hashseed, probe >>

SearchRunSemi(c, s) ==
    /\ thread[c][s].pc = "semi_run"
    /\ LET sent == SentQuery(engine[Self(c)].sparql_server,
                             SemiQuery(c, s))
       IN  \/ /\ CanFail(graph, sent)
              /\ thread' = [thread EXCEPT ![c][s].pc = "record",
                                          ![c][s].raised = TRUE]
           \/ /\ WellFormed(sent)
              /\ thread' = [thread EXCEPT
                     ![c][s].answer = Rows(graph, sent),
                     ![c][s].mode = SemiMode(s),
                     ![c][s].succeeded = TRUE,
                     ![c][s].pc = "record"]
    /\ UNCHANGED << query_handler, engine, graph, main, upd, hashseed, probe >>

SearchRecord(c, s) ==
    /\ thread[c][s].pc = "record"
    /\ engine' =
          IF s = "relation"
          THEN [engine EXCEPT ![Self(c)].relation_results =
                                  Some(StoredResult(thread[c][s]))]
          ELSE [engine EXCEPT ![Self(c)].text_results =
                                  Some(StoredResult(thread[c][s]))]
    /\ thread' = [thread EXCEPT ![c][s].pc = "done"]
    /\ UNCHANGED << query_handler, graph, main, upd, hashseed, probe >>

Search(c, s) ==
    \/ SearchSetExact(c, s)
    \/ SearchRunExact(c, s)
    \/ SearchSetSemi(c, s)
    \/ SearchRunSemi(c, s)
    \/ SearchRecord(c, s)

relationSearch(c) == Search(c, "relation")
textSearch(c)     == Search(c, "text")

(***************************************************************************)
(* QueryRunner.__categoryScoring and the mean filter of                    *)
(* __getEntityInformation.  A scored category is <<uri, <<n, d>>>> for the *)
(* quotient n / d.                                                         *)
(***************************************************************************)
RECURSIVE CountChars(_, _)
CountChars(labels, category) ==
    IF labels = << >> THEN 0
    ELSE (IF InList(labels[1], category) THEN 1 ELSE 0)
         + CountChars(Drop(labels, 1), category)

\* defined when ontology is not empty and ontology[0] is a key of the index
categoryScoring(ontology, categories, index) ==
    LET labels == index[ontology[1]]
        keys   == DictKeys(categories)
        score  == [cat \in Range(categories) |->
                      << CountChars(labels, cat), Len(cat) >>]
        sorted == SortDesc(keys, score)
    IN  [i \in 1..Len(sorted) |-> << sorted[i], score[sorted[i]] >>]

\* IndexError on ontology[0], KeyError on the index lookup
categoryScoringRaises(ontology, index) ==
    \/ Len(ontology) = 0
    \/ ontology[1] \notin DOMAIN index

RECURSIVE ProdDen(_, _)
\* product of the denominators of sc, the one at position skip left out
ProdDen(sc, skip) ==
    IF sc = << >> THEN 1
    ELSE (IF skip = Len(sc) THEN 1 ELSE sc[Len(sc)][2][2])
         * ProdDen(Take(sc, Len(sc) - 1), skip)

RECURSIVE SumNum(_, _)
\* sum over j <= upto of n_j * (product of the other denominators)
SumNum(sc, upto) ==
    IF upto = 0 THEN 0
    ELSE sc[upto][2][1] * ProdDen(sc, upto) + SumNum(sc, upto - 1)

\* sc[i] score >= mean of all scores of sc
AtLeastMean(sc, i) ==
    sc[i][2][1] * Len(sc) * ProdDen(sc, i) >= SumNum(sc, Len(sc))

topCategory(sc) ==
    LET idx == SelectSeq([i \in 1..Len(sc) |-> i],
                         LAMBDA i : AtLeastMean(sc, i))
    IN  [k \in 1..Len(idx) |-> sc[idx[k]][1]]

(***************************************************************************)
(* QueryRunner.runQuery, called by get_query                               *)
(***************************************************************************)
ThreadJoinedBug(c, s) == thread[c][s].pc # "idle"

\* Thread.join() returns
ThreadJoined(c, s) == thread[c][s].pc = "done"

Raise(c) == main' = [main EXCEPT ![c].pc = "raised"]

\* get_query reads initializer.query_handler and calls its runQuery
get_query(c) ==
    /\ main[c].pc = "pending"
    /\ main' = [main EXCEPT ![c].pc = "start_relation",
                            ![c].self = query_handler]
    /\ UNCHANGED << query_handler, engine, graph, thread, upd, hashseed, probe >>

StartThread(c, s, next) ==
    /\ thread' = [thread EXCEPT ![c][s].pc = "exact_set"]
    /\ main' = [main EXCEPT ![c].pc = next]
    /\ UNCHANGED << query_handler, engine, graph, upd, hashseed, probe >>

runQuery_start_relation(c) ==
    /\ main[c].pc = "start_relation"
    /\ StartThread(c, "relation", "start_text")

runQuery_start_text(c) ==
    /\ main[c].pc = "start_text"
    /\ StartThread(c, "text", "join_relation")

runQuery_join_relation(c) ==
    /\ main[c].pc = "join_relation"
    /\ ThreadJoined(c, "relation")
    /\ main' = [main EXCEPT ![c].pc = "join_text"]
    /\ UNCHANGED << query_handler, engine, graph, thread, upd, hashseed, probe >>

runQuery_join_text(c) ==
    /\ main[c].pc = "join_text"
    /\ ThreadJoined(c, "text")
    /\ main' = [main EXCEPT ![c].pc = "merge"]
    /\ UNCHANGED << query_handler, engine, graph, thread, upd, hashseed, probe >>

\* reads self.relation_results and self.text_results; an attribute no
\* strategy has assigned yet is an AttributeError
runQuery_merge(c) ==
    /\ main[c].pc = "merge"
    /\ LET rr == engine[Self(c)].relation_results
           tr == engine[Self(c)].text_results
       IN  IF rr = None \/ tr = None THEN Raise(c)
           ELSE main' = [main EXCEPT
                    ![c].merge_results =
                        mergeResults(main[c].query_text, rr[1].answer,
                                     tr[1].answer),
                    ![c].pc = "filter"]
    /\ UNCHANGED << query_handler, engine, graph, thread, upd, hashseed, probe >>

runQuery_filter(c) ==
    /\ main[c].pc = "filter"
    /\ LET kept == removeBadLinks(main[c].merge_results, main[c].query_text)
       IN  main' = [main EXCEPT
                ![c].removed_bad_links_result = kept,
                ![c].entity = IF kept = << >> THEN 0 ELSE 1,
                ![c].pc = IF kept = << >> THEN "result" ELSE "category"]
    /\ UNCHANGED << query_handler, engine, graph, thread, upd, hashseed, probe >>

\* reads the modes from the engine's attributes again
runQuery_result(c) ==
    /\ main[c].pc = "result"
    /\ main' = [main EXCEPT
            ![c].result = Some(
                [relation_mode |-> engine[Self(c)].relation_results[1].mode,
                 text_mode |-> engine[Self(c)].text_results[1].mode,
                 answer |-> main[c].answer]),
            ![c].pc = "returned"]
    /\ UNCHANGED << query_handler, engine, graph, thread, upd, hashseed, probe >>

(***************************************************************************)
(* QueryRunner.__getEntityInformation, once per surviving entity.  The     *)
(* main thread's __runSPARQL calls are taken as one step each.             *)
(***************************************************************************)
Entity(c) == main[c].removed_bad_links_result[main[c].entity]

\* one __runSPARQL of the enrichment: raises, or stores the rows in field
EnrichmentQuery(c, q, field, next) ==
    \/ /\ graph.may_fail
       /\ Raise(c)
       /\ UNCHANGED engine
    \/ /\ engine' = setQuery(Self(c), q)
       /\ main' = [main EXCEPT ![c].info[field] = Rows(graph, q),
                               ![c].succeeded = TRUE,
                               ![c].pc = next]

getEntityInformation_category(c) ==
    /\ main[c].pc = "category"
    /\ EnrichmentQuery(c, categoryQuery(Entity(c), Prefixes(c)),
                       "category_links", "ontology")
    /\ UNCHANGED << query_handler, graph, thread, upd, hashseed, probe >>

getEntityInformation_ontology(c) ==
    /\ main[c].pc = "ontology"
    /\ EnrichmentQuery(c, ontologyQuery(Entity(c), Prefixes(c)),
                       "ontology_links", "income")
    /\ UNCHANGED << query_handler, graph, thread, upd, hashseed, probe >>

getEntityInformation_income(c) ==
    /\ main[c].pc = "income"
    /\ EnrichmentQuery(c, incomeQuery(Entity(c), Prefixes(c)),
                       "income_entities_links", "outcome")
    /\ UNCHANGED << query_handler, graph, thread, upd, hashseed, probe >>

getEntityInformation_outcome(c) ==
    /\ main[c].pc = "outcome"
    /\ EnrichmentQuery(c, outcomeQuery(Entity(c), Prefixes(c)),
                       "outcome_entities_links", "scoring")
    /\ UNCHANGED << query_handler, graph, thread, upd, hashseed, probe >>

\* the call of __categoryScoring and the first line of __getSimilarEntries
getEntityInformation_scoring(c) ==
    /\ main[c].pc = "scoring"
    /\ LET index == engine[Self(c)].instance2labels[1]
           info  == main[c].info
       IN  IF categoryScoringRaises(info.ontology_links, index)
           THEN Raise(c)
           ELSE main' = [main EXCEPT
                    ![c].info.sorted_category =
                        categoryScoring(info.ontology_links,
                                        info.category_links, index),
                    ![c].info.num = 3,
                    ![c].info.sim_ents = << >>,
                    ![c].info.issued = << >>,
                    ![c].pc = "similar"]
    /\ UNCHANGED << query_handler, engine, graph, thread, upd, hashseed, probe >>

LoopContinuesBug(num) == num >= 0

\* while num > 0
LoopContinues(num) == num > 0

\* [category[i][0] for i in range(num)]
TopCategories(category, num) == [i \in 1..num |-> category[i][1]]

\* one iteration of the while loop, or the else branch
getSimilarEntries(c) ==
    /\ main[c].pc = "similar"
    /\ LET info == main[c].info
           num  == info.num
       IN  IF Len(info.sorted_category) > 3
           THEN LET q == similarQuery(info.ontology_links,
                             TopCategories(info.sorted_category, num))
                    found == SelectSeq(ListOfSet(Rows(graph, q), hashseed),
                                       LAMBDA e : e # Entity(c))
                IN  \/ /\ graph.may_fail
                       /\ Raise(c)
                       /\ UNCHANGED engine
                    \/ /\ engine' = setQuery(Self(c), q)
                       /\ main' = [main EXCEPT
                              ![c].info.sim_ents = found,
                              ![c].info.num = num - 1,
                              ![c].info.issued = Append(info.issued, num),
                              ![c].succeeded = TRUE,
                              ![c].pc =
                                  IF Len(found) > 1
                                     \/ ~LoopContinues(num - 1)
                                  THEN "finish" ELSE "similar"]
           ELSE LET q == similarQuery(info.ontology_links, << >>)
                IN  \/ /\ graph.may_fail
                       /\ Raise(c)
                       /\ UNCHANGED engine
                    \/ /\ engine' = setQuery(Self(c), q)
                       /\ main' = [main EXCEPT
                              ![c].info.sim_ents = Rows(graph, q),
                              ![c].info.issued = Append(info.issued, 0),
                              ![c].succeeded = TRUE,
                              ![c].pc = "finish"]
    /\ UNCHANGED << query_handler, graph, thread, upd, hashseed, probe >>

SimilarCap == 10

\* the return of __getSimilarEntries and the rest of __getEntityInformation;
\* mean() of an empty list is a StatisticsError
getEntityInformation_finish(c) ==
    /\ main[c].pc = "finish"
    /\ LET info     == main[c].info
           returned == Take(info.sim_ents, SimilarCap)
           entity_info ==
               [similar_entities |->
                    SelectSeq(returned, LAMBDA e : e # Entity(c)),
                categories |-> topCategory(info.sorted_category),
                ontology |-> info.ontology_links,
                income_entities |-> info.income_entities_links,
                outcome_entities |-> info.outcome_entities_links]
           last == main[c].entity = Len(main[c].removed_bad_links_result)
       IN  IF info.sorted_category = << >>
           THEN Raise(c)
           ELSE main' = [main EXCEPT
                    ![c].answer = Append(main[c].answer,
                        [result |-> Entity(c), info |-> entity_info]),
                    ![c].entity = IF last THEN 0 ELSE main[c].entity + 1,
                    ![c].pc = IF last THEN "result" ELSE "category"]
    /\ UNCHANGED << query_handler, engine, graph, thread, upd, hashseed, probe >>

getEntityInformation(c) ==
    \/ getEntityInformation_category(c)
    \/ getEntityInformation_ontology(c)
    \/ getEntityInformation_income(c)
    \/ getEntityInformation_outcome(c)
    \/ getEntityInformation_scoring(c)
    \/ getSimilarEntries(c)
    \/ getEntityInformation_finish(c)

runQuery(c) ==
    \/ runQuery_start_relation(c)
    \/ runQuery_start_text(c)
    \/ runQuery_join_relation(c)
    \/ runQuery_join_text(c)
    \/ runQuery_merge(c)
    \/ runQuery_filter(c)
    \/ getEntityInformation(c)
    \/ runQuery_result(c)

(***************************************************************************)
(* set_mode -> initializer.update_mode -> QueryRunner.__init__             *)
(***************************************************************************)
\* __init__, first statement: the object exists and owns a fresh client
QueryRunner_init_client ==
    /\ upd.pc = "pending"
    /\ engine' = [engine EXCEPT ![upd.new].sparql_server = Some(DefaultQuery)]
    /\ upd' = [upd EXCEPT !.pc = "index"]
    /\ UNCHANGED << query_handler, graph, main, thread, hashseed, probe >>

\* __init__, second statement: the index-build query; when it raises,
\* update_mode raises and set_mode answers "failed"
QueryRunner_init_index ==
    /\ upd.pc = "index"
    /\ \/ /\ graph.may_fail
          /\ upd' = [upd EXCEPT !.pc = "failed"]
          /\ UNCHANGED engine
       \/ /\ engine' = [engine EXCEPT
                 ![upd.new].sparql_server = Some(instance2labelsQuery),
                 ![upd.new].instance2labels =
                     Some(instance2labels(IndexBindings))]
          /\ upd' = [upd EXCEPT !.pc = "prefixes"]
    /\ UNCHANGED << query_handler, graph, main, thread, hashseed, probe >>

\* __init__, third statement
QueryRunner_init_prefixes ==
    /\ upd.pc = "prefixes"
    /\ engine' = [engine EXCEPT ![upd.new].prefixes = Some(upd.mode)]
    /\ upd' = [upd EXCEPT !.pc = "built"]
    /\ UNCHANGED << query_handler, graph, main, thread, hashseed, probe >>

ConstructorReturnedBug(u) == u.pc \in { "index", "built" }

\* the constructor call in update_mode has returned the new object
ConstructorReturned(u) == u.pc = "built"

\* the assignment to the global
update_mode ==
    /\ ConstructorReturned(upd)
    /\ query_handler' = upd.new
    /\ upd' = [upd EXCEPT !.pc = "success"]
    /\ UNCHANGED << engine, graph, main, thread, hashseed, probe >>

set_mode ==
    \/ QueryRunner_init_client
    \/ QueryRunner_init_index
    \/ QueryRunner_init_prefixes
    \/ update_mode

Next ==
    \/ \E c \in Calls : get_query(c)
    \/ \E c \in Calls : runQuery(c)
    \/ \E c \in Calls : relationSearch(c)
    \/ \E c \in Calls : textSearch(c)
    \/ set_mode

Spec == Init /\ [][Next]_vars

(***************************************************************************)
(* Properties                                                              *)
(***************************************************************************)
\* the dict a strategy of call c left in its engine attribute
Stored(c, s) ==
    IF s = "relation" THEN engine[Self(c)].relation_results
    ELSE engine[Self(c)].text_results

\* what strategy s stores for a query text when it is the only user of
\* the client and the endpoint answers every query it can parse
AloneOf(g, text, prefixes, s) ==
    LET eq    == ExactQueryOf(text, prefixes, s)
        sq    == SemiQueryOf(text, prefixes, s)
        exact == Rows(g, eq)
    IN  IF ~WellFormed(eq) \/ (exact = << >> /\ ~WellFormed(sq))
        THEN [mode |-> "error", answer |-> << >>]
        ELSE IF exact = << >>
        THEN [mode |-> SemiMode(s), answer |-> Rows(g, sq)]
        ELSE [mode |-> ExactMode(s), answer |-> exact]

AloneResult(c, s) ==
    AloneOf(graph, main[c].query_text, Prefixes(c), s)

AnySucceeded(c) ==
    \/ main[c].succeeded
    \/ \E s \in Strategies : thread[c][s].succeeded

AfterFilter ==
    { "category", "ontology", "income", "outcome", "scoring", "similar",
      "finish", "result", "returned" }
AfterMerge == AfterFilter \cup { "filter" }
AfterJoin  == AfterMerge \cup { "merge", "raised" }
Enriching  == AfterFilter \ { "result", "returned" }

IsPrefix(a, b) == Len(a) <= Len(b) /\ a = Take(b, Len(a))

\* call c is inside the relaxation branch of __getSimilarEntries
InRelaxation(c) ==
    /\ main[c].pc \in { "similar", "finish" }
    /\ Len(main[c].info.sorted_category) > 3

\* C1: within one runQuery, whatever the other strategy does, a strategy
\* that met no failure stores exactly the mode and answer it stores when it
\* runs alone against the same graph.
C1_StrategiesIsolated ==
    \A c \in Calls : \A s \in Strategies :
        (thread[c][s].pc = "done" /\ ~thread[c][s].raised)
            => Stored(c, s) = Some(AloneResult(c, s))

\* C3: runQuery ends in an unhandled failure only when the endpoint failed
\* every sub-query of the call.
C3_NeverUnhandled ==
    \A c \in Calls : main[c].pc = "raised" => ~AnySucceeded(c)

\* C4 as stated: zero exact rows => semi tier invoked and semi mode
\* reported; one or more exact rows => semi tier never invoked, exact mode
\* and exact rows reported.
C4_Original ==
    \A c \in Calls : \A s \in Strategies :
        LET t == thread[c][s]
        IN  (t.pc = "done" /\ t.exact # None) =>
                IF t.exact[1] = << >>
                THEN t.semi /\ Stored(c, s)[1].mode = SemiMode(s)
                ELSE /\ ~t.semi
                     /\ Stored(c, s) =
                            Some([mode |-> ExactMode(s), answer |-> t.exact[1]])

\* C4: zero exact rows => the semi tier is invoked, and the mode reported is
\* the semi mode unless the semi query's execution fails, when it is
\* 'error'; one or more exact rows => the semi tier is never invoked and the
\* exact mode is reported with the exact tier's rows.
C4_TierFallback ==
    \A c \in Calls : \A s \in Strategies :
        LET t == thread[c][s]
        IN  /\ t.semi => t.exact = Some(<< >>)
            /\ (t.pc \in { "record", "done" } /\ t.exact = Some(<< >>))
                   => t.semi
            /\ (t.pc = "done" /\ t.exact # None) =>
                   IF t.exact[1] = << >>
                   THEN Stored(c, s)[1].mode =
                            (IF t.raised THEN "error" ELSE SemiMode(s))
                   ELSE Stored(c, s) =
                            Some([mode |-> ExactMode(s),
                                  answer |-> t.exact[1]])

C4_Witness ==
    \E c \in Calls :
        /\ thread[c]["relation"].pc = "done"
        /\ thread[c]["relation"].semi
        /\ Stored(c, "relation")[1].mode = "semiRelationQuery"
        /\ thread[c]["text"].pc = "done"
        /\ thread[c]["text"].exact # None
        /\ ~thread[c]["text"].semi
        /\ Stored(c, "text")[1].mode = "likeQuery"

\* C5: a strategy whose exact-tier or semi-tier execution failed stores
\* mode 'error' with an empty answer, and finishes so that the join returns.
C5_ErrorMode ==
    \A c \in Calls : \A s \in Strategies :
        LET t == thread[c][s]
        IN  /\ (t.raised /\ t.pc = "done") =>
                   Stored(c, s) = Some([mode |-> "error", answer |-> << >>])
            /\ t.raised => t.pc \in { "record", "done" }

C5_Witness ==
    \E c \in Calls :
        /\ thread[c]["relation"].pc = "done"
        /\ thread[c]["relation"].raised
        /\ thread[c]["relation"].semi
        /\ Stored(c, "relation") = Some([mode |-> "error", answer |-> << >>])
        /\ main[c].pc = "returned"

\* C6: runQuery is past the join only when both strategies have completed,
\* filters only the complete merge of both stored answers, and enriches
\* only entities of the complete filter result.
C6_StepsSequential ==
    \A c \in Calls :
        LET m == main[c]
        IN  /\ m.pc \in AfterJoin =>
                   \A s \in Strategies : thread[c][s].pc = "done"
            /\ m.pc \in AfterMerge =>
                   m.merge_results =
                       mergeResults(m.query_text,
                                    Stored(c, "relation")[1].answer,
                                    Stored(c, "text")[1].answer)
            /\ m.pc \in AfterFilter =>
                   m.removed_bad_links_result =
                       removeBadLinks(m.merge_results, m.query_text)
            /\ m.pc \in Enriching =>
                   m.entity \in 1..Len(m.removed_bad_links_result)
            /\ (m.succeeded \/ m.answer # << >>) =>
                   /\ m.pc \in AfterFilter \cup { "raised" }
                   /\ \A s \in Strategies : thread[c][s].pc = "done"

C6_Witness ==
    \E c \in Calls :
        /\ main[c].pc = "returned"
        /\ Len(main[c].answer) >= 2

Constructed(e) ==
    /\ engine[e].sparql_server # None
    /\ engine[e].instance2labels # None
    /\ engine[e].prefixes # None

\* C7: the active engine, and the engine of every running query, is fully
\* constructed at all times; the engine built at import keeps its index and
\* prefixes; while update_mode has not assigned, and after it failed, the
\* engine built at import is the active one.
C7_AtomicSwap ==
    /\ Constructed(query_handler)
    /\ \A c \in Calls :
           main[c].pc \notin { "absent", "pending" } =>
               Constructed(main[c].self)
    /\ engine[0].instance2labels = Some(instance2labels(IndexBindings))
    /\ engine[0].prefixes = Some(DefaultPrefixes)
    /\ upd.pc \in { "pending", "index", "prefixes", "built", "failed" } =>
           query_handler = 0
    /\ upd.pc = "success" =>
           /\ query_handler = upd.new
           /\ engine[upd.new].prefixes = Some(upd.mode)

C7_Witness ==
    /\ upd.pc = "failed"
    /\ query_handler = 0
    /\ \E c \in Calls : main[c].pc = "returned" /\ Len(main[c].answer) >= 1

\* C10 as stated: the relaxation issues the 3-, 2-, 1- and 0-category
\* queries in that order and ends on more than 1 result or after the
\* 0-category query.
C10_Original ==
    \A c \in Calls :
        InRelaxation(c) =>
            /\ IsPrefix(main[c].info.issued, << 3, 2, 1, 0 >>)
            /\ main[c].pc = "finish" =>
                   \/ Len(main[c].info.sim_ents) > 1
                   \/ main[c].info.issued = << 3, 2, 1, 0 >>

\* C10: the relaxation issues the 3-, 2- and 1-category queries in that
\* order and ends on more than 1 result or after the 1-category query; the
\* ontology-only query is not issued; the entities returned are the
\* distinct rows of the last query issued, the entity itself left out, at
\* most 10 of them.
C10_Relaxation ==
    \A c \in Calls :
        /\ InRelaxation(c) =>
            LET info == main[c].info
                last == info.issued[Len(info.issued)]
            IN  /\ IsPrefix(info.issued, << 3, 2, 1 >>)
                /\ (main[c].pc = "similar" /\ info.issued # << >>) =>
                       Len(info.sim_ents) < 2
                /\ main[c].pc = "finish" =>
                       /\ Len(info.sim_ents) > 1 \/ info.issued = << 3, 2, 1 >>
                       /\ Range(info.sim_ents) =
                              Range(Rows(graph,
                                  similarQuery(info.ontology_links,
                                      TopCategories(info.sorted_category,
                                                    last))))
                              \ { Entity(c) }
        /\ \A i \in 1..Len(main[c].answer) :
               Len(main[c].answer[i].info.similar_entities) <= SimilarCap

C10_Witness ==
    \E c \in Calls :
        /\ main[c].pc = "finish"
        /\ Len(main[c].info.sorted_category) > 3
        /\ main[c].info.issued = << 3, 2, 1 >>
        /\ Len(main[c].info.sim_ents) < 2

(***************************************************************************)
(* Two /query requests with different texts served by the engine built at  *)
(* import (get_query is a sync handler, run on the server's thread pool).  *)
(***************************************************************************)
\* a graph in which the text strategy has to fall back to its semi tier
GraphTwo ==
    [hit |-> [k \in StrategyKinds |-> k # "likeQuery"],
     may_fail |-> FALSE, matches |-> 1,
     categories |-> Categories1, ontology |-> << Person >>,
     similar |-> SimilarDefault]

\* a strategy thread of a call that ran alone, after it stored its result
ThreadDone(g, text, s) ==
    LET exact == Rows(g, ExactQueryOf(text, DefaultPrefixes, s))
        alone == AloneOf(g, text, DefaultPrefixes, s)
    IN  [pc |-> "done", answer |-> alone.answer, mode |-> alone.mode,
         raised |-> FALSE, succeeded |-> TRUE, exact |-> Some(exact),
         semi |-> (exact = << >>)]

\* request "a" has just joined its two strategy threads, which ran one after
\* the other (relation first), when request "b" arrives
InitTwo ==
    /\ graph = GraphTwo
    /\ hashseed = 0
    /\ upd = [pc |-> "absent", mode |-> DefaultPrefixes, new |-> 1]
    /\ probe = NoProbe
    /\ query_handler = 0
    /\ main = [c \in Calls |->
                  IF c = "a" THEN MainInit("merge", TextAliReza)
                  ELSE MainInit("pending", TextRezaAli)]
    /\ thread = [c \in Calls |-> [s \in Strategies |->
                  IF c = "a" THEN ThreadDone(GraphTwo, TextAliReza, s)
                  ELSE ThreadInit]]
    /\ engine = [e \in EngineIds |->
                  IF e = 0
                  THEN [QueryRunner(DefaultPrefixes) EXCEPT
                          !.sparql_server =
                              Some(SemiQueryOf(TextAliReza, DefaultPrefixes,
                                               "text")),
                          !.relation_results =
                              Some(AloneOf(GraphTwo, TextAliReza, DefaultPrefixes,
                                           "relation")),
                          !.text_results =
                              Some(AloneOf(GraphTwo, TextAliReza, DefaultPrefixes,
                                           "text"))]
                  ELSE NoObject]

NextTwo ==
    \/ \E c \in Calls : get_query(c)
    \/ \E c \in Calls : runQuery(c)
    \/ \E c \in Calls : relationSearch(c)
    \/ \E c \in Calls : textSearch(c)

SpecTwo == InitTwo /\ [][NextTwo]_vars

\* [d['result'] for d in answer]
ResultEntities(answer) == [i \in 1..Len(answer) |-> answer[i].result]

\* C2: with two runQuery calls running on the same engine, what a call
\* merges and what it returns come from the results its own two strategy
\* threads stored, never from the other call's.
C2_CallsIndependent ==
    \A c \in Calls :
        LET m   == main[c]
            rel == StoredResult(thread[c]["relation"])
            txt == StoredResult(thread[c]["text"])
        IN  /\ m.pc \in AfterMerge =>
                   m.merge_results =
                       mergeResults(m.query_text, rel.answer, txt.answer)
            /\ m.pc = "returned" =>
                   /\ m.result[1].relation_mode = rel.mode
                   /\ m.result[1].text_mode = txt.mode
                   /\ ResultEntities(m.result[1].answer) =
                          removeBadLinks(
                              mergeResults(m.query_text, rel.answer,
                                           txt.answer), m.query_text)

(***************************************************************************)
(* Direct calls of __mergeResults and __removeBadLinks with given          *)
(* arguments, in a process that serves no request.                         *)
(***************************************************************************)
MaxRelation == 4
MaxText     == 3
MaxLinks    == 2

\* the sequences without repetition over S, of length <= n
DistinctSeqs(S, n) ==
    UNION { { f \in [1..k -> S] :
                \A i, j \in 1..k : i # j => f[i] # f[j] } : k \in 0..n }

\* the sequences over S, of length <= n
SeqsUpTo(S, n) == UNION { [1..k -> S] : k \in 0..n }

InitQuiet ==
    /\ graph = GraphTwo
    /\ hashseed = 0
    /\ main = [c \in Calls |-> MainInit("absent", << >>)]
    /\ thread = [c \in Calls |-> [s \in Strategies |-> ThreadInit]]

\* the engine built at import is active, no /mode request was made
InitDefaultEngine ==
    /\ query_handler = 0
    /\ engine = [e \in EngineIds |->
                    IF e = 0 THEN QueryRunner(DefaultPrefixes) ELSE NoObject]
    /\ upd = [pc |-> "absent", mode |-> DefaultPrefixes, new |-> 1]

\* a /mode request has replaced the engine
InitUpdatedEngine(m) ==
    /\ query_handler = 1
    /\ engine = [e \in EngineIds |->
                    IF e = 0 THEN QueryRunner(DefaultPrefixes)
                    ELSE [QueryRunner(m) EXCEPT
                             !.sparql_server = Some(instance2labelsQuery)]]
    /\ upd = [pc |-> "success", mode |-> m, new |-> 1]

\* entity URIs of a relation answer and of a text answer (distinct rows)
RelationItems == { << "a" >>, << "b" >>, << "c" >>, << "d" >> }
TextItems     == { << "a" >>, << "e" >>, << "f" >>, << "g" >> }

InitMerge ==
    /\ InitQuiet
    /\ InitDefaultEngine
    /\ \E R \in DistinctSeqs(RelationItems, MaxRelation),
          X \in DistinctSeqs(TextItems, MaxText) :
          probe = [method |-> "mergeResults",
                   args |-> << TextAli, R, X >>, result |-> None]

call_mergeResults ==
    /\ probe.method = "mergeResults"
    /\ probe.result = None
    /\ probe' = [probe EXCEPT !.result =
                    Some(mergeResults(probe.args[1], probe.args[2],
                                      probe.args[3]))]
    /\ UNCHANGED << query_handler, engine, graph, main, thread, upd,
                    hashseed >>

NextMerge == call_mergeResults

SpecMerge == InitMerge /\ [][NextMerge]_vars

\* C8: the merged list is [] when R and T are empty, T when R is empty, R
\* when T is empty, R[0:2] + T[0:2] + R[2:] + T[2:] when both are longer
\* than 2, R[0:2] + T + R[2:] when only R is, and R + T otherwise, T being
\* the sorted text-purity list.
C8_MergePolicy ==
    (probe.method = "mergeResults" /\ probe.result # None) =>
        LET R == probe.args[2]
            T == sortingTextPurResults(probe.args[1], R, probe.args[3])
            merged == probe.result[1]
            lr == Len(R)
            lt == Len(T)
        IN  /\ Len(merged) = lr + lt
            /\ (lr > 2 /\ lt > 2) =>
                 /\ \A i \in 1..2 : merged[i] = R[i] /\ merged[2 + i] = T[i]
                 /\ \A i \in 3..lr : merged[2 + i] = R[i]
                 /\ \A i \in 3..lt : merged[lr + i] = T[i]
            /\ (lr > 2 /\ lt <= 2) =>
                 /\ \A i \in 1..2 : merged[i] = R[i]
                 /\ \A i \in 1..lt : merged[2 + i] = T[i]
                 /\ \A i \in 3..lr : merged[lt + i] = R[i]
            /\ lr <= 2 =>
                 /\ \A i \in 1..lr : merged[i] = R[i]
                 /\ \A i \in 1..lt : merged[lr + i] = T[i]
            /\ (R = << <<"a">>, <<"b">>, <<"c">>, <<"d">> >>
                /\ T = << <<"e">>, <<"f">>, <<"g">> >>) =>
                 merged = << <<"a">>, <<"b">>, <<"e">>, <<"f">>,
                             <<"c">>, <<"d">>, <<"g">> >>

C8_Witness ==
    /\ probe.method = "mergeResults"
    /\ probe.args[2] = << <<"a">>, <<"b">>, <<"c">>, <<"d">> >>
    /\ probe.args[3] = << <<"e">>, <<"f">>, <<"g">> >>
    /\ probe.result =
           Some(<< <<"a">>, <<"b">>, <<"e">>, <<"f">>, <<"c">>, <<"d">>,
                   <<"g">> >>)

\* local names of candidates
Locals == { Ali, AliReza, Omid }

InitFilter ==
    /\ InitQuiet
    /\ \E m \in Modes \cup { DefaultPrefixes } :
          /\ IF m = DefaultPrefixes THEN InitDefaultEngine
             ELSE InitUpdatedEngine(m)
          /\ \E links \in SeqsUpTo({ Namespace(m.entity) \o l : l \in Locals },
                                   MaxLinks),
                query \in Texts \cup { TextRezaAli } :
                probe = [method |-> "removeBadLinks",
                         args |-> << links, query >>, result |-> None]

call_removeBadLinks ==
    /\ probe.method = "removeBadLinks"
    /\ probe.result = None
    /\ probe' = [probe EXCEPT !.result =
                    Some(removeBadLinks(probe.args[1], probe.args[2]))]
    /\ UNCHANGED << query_handler, engine, graph, main, thread, upd,
                    hashseed >>

NextFilter == call_removeBadLinks

SpecFilter == InitFilter /\ [][NextFilter]_vars

\* the local name: the URI without the entity namespace of the active engine
LocalName(link) ==
    Drop(link, Len(Namespace(engine[query_handler].prefixes[1].entity)))

\* some piece of the local name, cleaned, is a term of the tokenized query
SharesToken(link, query) ==
    \E piece \in Range(Split(LocalName(link), "_")) :
        cleanToken(piece) \in Range(tokenizer(query))

\* C9: the link filter keeps exactly the candidates whose local name shares
\* a token with the tokenized query, in their input order.
C9_LinkFilter ==
    (probe.method = "removeBadLinks" /\ probe.result # None) =>
        probe.result[1] =
            SelectSeq(probe.args[1],
                      LAMBDA link : SharesToken(link, probe.args[2]))


(***************************************************************************)
(* The same text queried twice on the engine built at import: the second   *)
(* request is sent after the first one was answered.  The endpoint never   *)
(* fails on a well-formed query and the graph does not change.             *)
(***************************************************************************)
GraphsStable ==
    { [hit |-> h, may_fail |-> FALSE, matches |-> 3, categories |-> Categories1,
       ontology |-> << Person >>, similar |-> SimilarDefault] :
      h \in [StrategyKinds -> BOOLEAN] }

InitTwice ==
    /\ InitProcess
    /\ graph \in GraphsStable
    /\ hashseed = 0
    /\ upd = [pc |-> "absent", mode |-> DefaultPrefixes, new |-> 1]
    /\ probe = NoProbe
    /\ \E t \in Texts :
          main = [c \in Calls |->
                    IF c = "a" THEN MainInit("pending", t)
                    ELSE MainInit("waiting", t)]

\* the client sends request c once request d was answered (200 or 500)
get_query_after(c, d) ==
    /\ main[c].pc = "waiting"
    /\ main[d].pc \in { "returned", "raised" }
    /\ main' = [main EXCEPT ![c].pc = "pending"]
    /\ UNCHANGED << query_handler, engine, graph, thread, upd, hashseed, probe >>

NextTwice ==
    \/ \E c \in Calls : get_query(c)
    \/ \E c \in Calls : runQuery(c)
    \/ \E c \in Calls : relationSearch(c)
    \/ \E c \in Calls : textSearch(c)
    \/ get_query_after("b", "a")

SpecTwice == InitTwice /\ [][NextTwice]_vars

\* C11: the same text queried twice on the same engine against an unchanged
\* graph with a stable row order gives the same FinalAnswer (modes, entities
\* and info lists, in the same order), whatever the scheduling of the two
\* strategy threads of each run.
C11_Deterministic ==
    (main["a"].pc = "returned" /\ main["b"].pc = "returned") =>
        main["a"].result = main["b"].result


(***************************************************************************)
(* Direct calls of __sortingTextPurResults.                                *)
(***************************************************************************)
MaxPurity   == 4
MaxExcluded == 2

TextRezaOmid == Reza \o << " " >> \o Omid

\* candidate URIs: different lengths, and two of the same length
PurityItems == { NsFkgr \o l : l \in { Ali, AliReza, Omid, Reza } }

InitPurity ==
    /\ InitQuiet
    /\ InitDefaultEngine
    /\ \E query \in { TextAli, TextAliReza, TextRezaOmid },
          R \in DistinctSeqs(PurityItems, MaxExcluded),
          X \in SeqsUpTo(PurityItems, MaxPurity) :
          probe = [method |-> "sortingTextPurResults",
                   args |-> << query, R, X >>, result |-> None]

call_sortingTextPurResults ==
    /\ probe.method = "sortingTextPurResults"
    /\ probe.result = None
    /\ probe' = [probe EXCEPT !.result =
                    Some(sortingTextPurResults(probe.args[1], probe.args[2],
                                               probe.args[3]))]
    /\ UNCHANGED << query_handler, engine, graph, main, thread, upd,
                    hashseed >>

NextPurity == call_sortingTextPurResults

SpecPurity == InitPurity /\ [][NextPurity]_vars

\* number of query tokens that occur in the URI, and the URI's length
Overlap(query, uri) ==
    Cardinality({ i \in 1..Len(tokenizer(query)) :
                    IsSubstr(tokenizer(query)[i], uri) })

\* position of the first occurrence of x in the list s
FirstPosition(s, x) == CHOOSE i \in 1..Len(s) :
                           s[i] = x /\ \A j \in 1..(i - 1) : s[j] # x

\* C12: the text-purity list holds exactly the text-result entities that are
\* not in the relation-result list, once each, ordered by descending score
\* (query tokens occurring in the URI / length of the URI), entities of
\* equal score in their order in the text-result list.
C12_TextPurity ==
    (probe.method = "sortingTextPurResults" /\ probe.result # None) =>
        LET q == probe.args[1]
            R == probe.args[2]
            X == probe.args[3]
            T == probe.result[1]
        IN  /\ Range(T) = Range(X) \ Range(R)
            /\ \A i, j \in 1..Len(T) : i # j => T[i] # T[j]
            /\ \A i, j \in 1..Len(T) : i < j =>
                 LET ni == Overlap(q, T[i])
                     nj == Overlap(q, T[j])
                 IN  /\ ni * Len(T[j]) >= nj * Len(T[i])
                     /\ ni * Len(T[j]) = nj * Len(T[i]) =>
                            FirstPosition(X, T[i]) < FirstPosition(X, T[j])

\* an excluded entity, a reordering and a tie in one call
C12_Witness ==
    /\ probe.method = "sortingTextPurResults"
    /\ probe.args = << TextRezaOmid, << NsFkgr \o Ali >>,
                       << NsFkgr \o Ali, NsFkgr \o AliReza, NsFkgr \o Omid,
                          NsFkgr \o Reza >> >>
    /\ probe.result =
           Some(<< NsFkgr \o Omid, NsFkgr \o Reza, NsFkgr \o AliReza >>)


(***************************************************************************)
(* The label filter the semi-tier builders write.  sparql1 and sparql2 are *)
(* "&&" chains over tokens[:-1] and tokens[1:]; sparql3 is empty or        *)
(* " || regex(m1) && regex(m2) ...": its first regex is written with "||"  *)
(* and, 'regex' being in sparql3 from then on, the others with "&&".  The  *)
(* filter is "(" sparql1 " || " sparql2 sparql3 ")"; "&&" binds tighter    *)
(* than "||", so the filter is a disjunction of "&&" chains, kept here as  *)
(* the list of its chains, each the list of its tokens.                    *)
(***************************************************************************)
\* tokens[1:-1]
Interior(tokens) ==
    IF Len(tokens) < 2 THEN << >> ELSE SubSeq(tokens, 2, Len(tokens) - 1)

\* tokens[:-1]
AllButLast(tokens) ==
    IF tokens = << >> THEN << >> ELSE SubSeq(tokens, 1, Len(tokens) - 1)

semiRelationFilter(text) ==
    LET tokens       == tokenizer(text)
        start_tokens == AllButLast(tokens)
        mid_tokens   == IF Len(tokens) > 2 THEN Interior(tokens) ELSE << >>
        end_tokens   == Drop(tokens, 1)
        sparql3      == IF Len(mid_tokens) > 1 THEN << mid_tokens >>
                        ELSE << >>
    IN  << start_tokens, end_tokens >> \o sparql3

semiLikeFilter(text) ==
    LET tokens       == tokenizer(text)
        start_tokens == AllButLast(tokens)
        mid_tokens   == IF Len(tokens) > 3 THEN Interior(tokens) ELSE << >>
        end_tokens   == Drop(tokens, 1)
        sparql3      == IF Len(mid_tokens) > 0 THEN << mid_tokens >>
                        ELSE << >>
    IN  << start_tokens, end_tokens >> \o sparql3

\* regex(?label, "token", "i") for a lower-case token without regex
\* metacharacters and a lower-case label
regex(label, token) == IsSubstr(token, label)

\* whether the endpoint's evaluation of the filter accepts the label
FilterAccepts(filter, label) ==
    \E d \in 1..Len(filter) :
        \A k \in 1..Len(filter[d]) : regex(label, filter[d][k])

MaxTokens == 4

\* query terms and the texts made of them
Terms ==
    { << "a", "a", "a" >>, << "b", "b", "b" >>, << "c", "c", "c" >>,
      << "d", "d", "d" >> }

RECURSIVE JoinWithSpace(_)
JoinWithSpace(ts) ==
    IF ts = << >> THEN << >>
    ELSE IF Len(ts) = 1 THEN ts[1]
    ELSE ts[1] \o << " " >> \o JoinWithSpace(Drop(ts, 1))

\* texts of two to MaxTokens terms: both semi-tier queries are well formed
SemiTexts ==
    { JoinWithSpace(ts) : ts \in UNION { [1..k -> Terms] : k \in 2..MaxTokens } }

\* labels holding no, one or two of the terms
Labels ==
    { JoinWithSpace(ts) : ts \in UNION { [1..k -> Terms] : k \in 0..2 } }

InitSemi ==
    /\ InitQuiet
    /\ InitDefaultEngine
    /\ \E builder \in { "semiRelationQuery", "semiLikeQuery" },
          text \in SemiTexts :
          probe = [method |-> builder, args |-> << text >>, result |-> None]

call_semiRelationQuery ==
    /\ probe.method = "semiRelationQuery"
    /\ probe.result = None
    /\ probe' = [probe EXCEPT !.result =
                    Some(semiRelationFilter(probe.args[1]))]
    /\ UNCHANGED << query_handler, engine, graph, main, thread, upd,
                    hashseed >>

call_semiLikeQuery ==
    /\ probe.method = "semiLikeQuery"
    /\ probe.result = None
    /\ probe' = [probe EXCEPT !.result = Some(semiLikeFilter(probe.args[1]))]
    /\ UNCHANGED << query_handler, engine, graph, main, thread, upd,
                    hashseed >>

NextSemi ==
    \/ call_semiRelationQuery
    \/ call_semiLikeQuery

SpecSemi == InitSemi /\ [][NextSemi]_vars

\* C13: the semi-tier filter accepts a label exactly when all tokens but
\* the last match it, or all tokens but the first match it, or the interior
\* disjunct is present and some interior token matches it; the interior
\* disjunct is present in the relation semi tier exactly when there are more
\* than 2 tokens and in the text semi tier exactly when there are more than
\* 3 tokens.
C13_SemiFilter ==
    (probe.method \in { "semiRelationQuery", "semiLikeQuery" }
     /\ probe.result # None) =>
        LET tokens  == tokenizer(probe.args[1])
            n       == Len(tokens)
            present == IF probe.method = "semiRelationQuery" THEN n > 2
                       ELSE n > 3
        IN  \A label \in Labels :
                FilterAccepts(probe.result[1], label) <=>
                    \/ \A k \in 1..(n - 1) : IsSubstr(tokens[k], label)
                    \/ \A k \in 2..n : IsSubstr(tokens[k], label)
                    \/ /\ present
                       /\ \E k \in 2..(n - 1) : IsSubstr(tokens[k], label)


(***************************************************************************)
(* One /query request whose text may hold no term longer than two          *)
(* characters, served by the engine built at import; the endpoint fails    *)
(* only on a query string it cannot parse.                                 *)
(***************************************************************************)
TextEmpty == << >>
TextOf    == << "o", "f" >>

ShortTexts == { TextEmpty, TextOf }

InitShort ==
    /\ InitProcess
    /\ graph \in GraphsStable
    /\ hashseed = 0
    /\ upd = [pc |-> "absent", mode |-> DefaultPrefixes, new |-> 1]
    /\ probe = NoProbe
    /\ \E t \in ShortTexts \cup Texts :
          main = [c \in Calls |->
                    IF c = "a" THEN MainInit("pending", t)
                    ELSE MainInit("absent", << >>)]

NextShort ==
    \/ \E c \in Calls : get_query(c)
    \/ \E c \in Calls : runQuery(c)
    \/ \E c \in Calls : relationSearch(c)
    \/ \E c \in Calls : textSearch(c)

SpecShort == InitShort /\ [][NextShort]_vars

\* C14: when the query text tokenizes to the empty list, each strategy
\* reports its exact-tier mode (relationQuery / likeQuery) with the rows of
\* a query that has no label constraint, and not the 'error' mode.
C14_EmptyTokens ==
    \A c \in Calls : \A s \in Strategies :
        (tokenizer(main[c].query_text) = << >> /\ thread[c][s].pc = "done") =>
            /\ StoredResult(thread[c][s]).mode = ExactMode(s)
            /\ StoredResult(thread[c][s]).answer = thread[c][s].answer

====
